---- MODULE Spec2Model ----
(***************************************************************************)
(* SMA crossover strategy engine (bot/strategies/sma_cross.py).            *)
(*                                                                         *)
(* Prices are the floats of on_candle, kept in half units (1.5 is 3), so   *)
(* that every close of the modelled feed and every product and sum the     *)
(* engine forms of them is an integer.  A moving average is kept as the    *)
(* pair of its window sum and its window length, and two averages are      *)
(* compared by cross multiplication; NaN is the pair with length 0.        *)
(***************************************************************************)
EXTENDS Integers, Sequences, FiniteSets, TLC

\* ---------------------------------------------------------------- bounds
MaxWindow == 3      \* largest slow period of a modelled configuration
MaxQty == 2         \* largest number of lots
MaxHalves == 3      \* largest close of the feed, in halves: 1.0 .. MaxHalves / 2
MaxCalls == 5       \* on_start, on_candle and on_stop calls made on the instance
MaxArg == 4         \* periods handed to the constructor: -MaxArg..MaxArg
MaxTasks == 6       \* tasks of change_stream and _stream_candles the window creates
MaxRuns == 2        \* strategy instances started while start requests are accepted
MaxResponses == 3   \* responses the broker sends on a candle stream
MaxAccounts == 2    \* sandbox accounts that exist before the first call
MaxQueued == 1      \* start and stop requests waiting in the event loop at once
MaxCandles == 2     \* candles the stream loops hand to strategy instances

\* nano part of a close of one half
HalfNano == 500000000

VARIABLES
    engine,          \* "none" | "constructed" | "ValueError": outcome of __init__
    figi, fast, slow, qty,
    df,              \* rows [time, close], the DataFrame
    position_open, entry_price,
    total_profit, trades_count, winning_trades,
    trace,           \* callback and port invocations, in the order made
    call,            \* the last call made on the instance and its outcome
    clock,           \* time of the next candle of the feed
    win,             \* fields of ModernWindow and the selection of its controls
    tasks,           \* asyncio tasks of the window, by order of creation
    ready,           \* what the event loop runs next, first in first out
    instances,       \* strategy instances the window created
    deliveries,      \* on_candle calls the stream loops made, in order
    subscription,    \* what stream_candles subscribed its stream manager to
    responses,       \* responses the broker sent on that stream, in order
    cursor,          \* how many of them candle_generator has taken
    yielded,         \* what candle_generator yielded, in order
    accounts,        \* accounts of the sandbox, as get_sandbox_accounts lists them
    account_call,    \* the last _get_sandbox_account_id call and its outcome
    candle_count     \* the counter of the EchoStrategy instance

strategy == <<engine, figi, fast, slow, qty, df, position_open, entry_price,
              total_profit, trades_count, winning_trades, trace, call, clock>>

gui == <<win, tasks, ready, instances, deliveries>>

client == <<subscription, responses, cursor, yielded, accounts, account_call>>

echo == <<candle_count>>

vars == <<strategy, gui, client, echo>>

config == <<engine, figi, fast, slow, qty>>
position == <<position_open, entry_price>>
stats == <<total_profit, trades_count, winning_trades>>

\* ---------------------------------------------------------------- inputs
Figis == {"BBG004730N88"}

\* closes of the feed: 1.0, 1.5, ..., MaxHalves / 2 as Quotation(units, nano)
Quotations ==
    {[units |-> k \div 2, nano |-> (k % 2) * HalfNano] : k \in 2..MaxHalves}

\* what the order port answers: success, or one of its errors
PortResults == {"ok", "OrderError"}

\* ---------------------------------------------------------------- helpers
\* quotation_to_decimal followed by float(), in half units
quotation_to_decimal(q) == 2 * q.units + q.nano \div HalfNano

RECURSIVE SumLast(_, _)
\* sum of the last n closes of the rows d
SumLast(d, n) ==
    IF n = 0 THEN 0
    ELSE d[Len(d)].close + SumLast(SubSeq(d, 1, Len(d) - 1), n - 1)

\* df.close.rolling(n).mean().iloc[-1]
NaN == [sum |-> 0, n |-> 0]

\* the mean of the first n rows in place of the last n
RollingMean_head(d, n) ==
    IF n <= 0 \/ Len(d) < n THEN NaN
    ELSE [sum |-> SumLast(SubSeq(d, 1, n), n), n |-> n]

\* the mean of the whole column in place of the rolling one
RollingMean_all(d, n) ==
    IF n <= 0 \/ Len(d) < n THEN NaN
    ELSE [sum |-> SumLast(d, Len(d)), n |-> Len(d)]

RollingMean(d, n) ==
    IF n <= 0 \/ Len(d) < n THEN NaN
    ELSE [sum |-> SumLast(d, n), n |-> n]

\* a > b on floats; any comparison with NaN is false
Gt(a, b) == a.n # 0 /\ b.n # 0 /\ a.sum * b.n > b.sum * a.n
Lt(a, b) == Gt(b, a)

IsOrder(e) == e.type = "place_market_order"
IsEvent(e) == e.type # "place_market_order"
IsLifecycle(e) == e.type \in {"strategy_started", "strategy_stopped"}

Events == SelectSeq(trace, IsEvent)
Orders == SelectSeq(trace, IsOrder)

\* ---------------------------------------------------------------- client
\* no stream was opened and no account was asked for
NoSubscription == [figi |-> "", interval |-> ""]

NoAccountCall == [outcome |-> "none", seen |-> <<>>, id |-> 0]

InvestClient_init ==
    /\ subscription = NoSubscription
    /\ responses = <<>>
    /\ cursor = 0
    /\ yielded = <<>>
    /\ accounts = <<>>
    /\ account_call = NoAccountCall

\* ---------------------------------------------------------------- echo
\* EchoStrategy(client, figi, on_signal_callback): the counter starts at 0
EchoStrategy_init == candle_count = 0

\* ---------------------------------------------------------------- window
\* instruments of the instrument box, the first being the one at launch
Instruments == {"BBG004730N88", "BBG000B9XRY4"}

DefaultFigi == "BBG004730N88"

\* intervals of the timeframe box, the first being the one at launch
Intervals == {"CANDLE_INTERVAL_1_MIN", "CANDLE_INTERVAL_5_MIN"}

DefaultInterval == "CANDLE_INTERVAL_1_MIN"

\* what the field _stream_task holds: None, the Task of _stream_candles
\* number id, or the candle generator that task got from stream_candles
None == [kind |-> "None", id |-> 0]

Task(id) == [kind |-> "Task", id |-> id]

AsyncGenerator(id) == [kind |-> "async_generator", id |-> id]

\* ModernWindow(figi): no stream, no strategy instance, no task yet; an
\* instance and a stream manager are named by their number, 0 being None
ModernWindow_init ==
    /\ win = [figi |-> DefaultFigi, interval |-> DefaultInterval,
              stream_task |-> None, stream_mgr |-> 0,
              strategy_instance |-> 0, strategy_running |-> FALSE,
              closed |-> FALSE]
    /\ tasks = <<>>
    /\ ready = <<>>
    /\ instances = <<>>
    /\ deliveries = <<>>

\* ---------------------------------------------------------------- __init__
\* the fields __init__ assigns after a successful check
NewInstance(g, f, s, q) ==
    [figi |-> g, fast |-> f, slow |-> s, qty |-> q, df |-> <<>>,
     position_open |-> FALSE, entry_price |-> 0, total_profit |-> 0,
     trades_count |-> 0, winning_trades |-> 0]

\* the fields of the instance are those of the record o
Holds(o) ==
    /\ figi = o.figi /\ fast = o.fast /\ slow = o.slow /\ qty = o.qty
    /\ df = o.df
    /\ position_open = o.position_open
    /\ entry_price = o.entry_price
    /\ total_profit = o.total_profit
    /\ trades_count = o.trades_count
    /\ winning_trades = o.winning_trades

\* the fields of the instance, as a record
Fields ==
    [figi |-> figi, fast |-> fast, slow |-> slow, qty |-> qty, df |-> df,
     position_open |-> position_open, entry_price |-> entry_price,
     total_profit |-> total_profit, trades_count |-> trades_count,
     winning_trades |-> winning_trades]

\* the check with equal periods let through
InitRaises_strict(f, s) == f > s

\* the check of the periods: TRUE when __init__ raises ValueError
InitRaises(f, s) == f >= s

\* no instance yet: the fields hold placeholders
NoEngine ==
    /\ engine = "none"
    /\ Holds(NewInstance("", 0, 0, 0))
    /\ trace = <<>>
    /\ call = [op |-> "none", outcome |-> "none", arg |-> <<>>, base |-> 0,
               pre |-> NewInstance("", 0, 0, 0)]
    /\ clock = 0

\* SmaCrossStrategy(client, figi, fast, slow, qty, on_signal_callback)
SmaCrossStrategy_init ==
    /\ engine = "none"
    /\ \E g \in Figis, f \in -MaxArg..MaxArg, s \in -MaxArg..MaxArg, q \in {1, MaxQty} :
        LET o == NewInstance(g, f, s, q)
        IN /\ call' = [op |-> "__init__", arg |-> <<f, s, q>>, base |-> 0,
                       pre |-> Fields,
                       outcome |-> IF InitRaises(f, s) THEN "ValueError"
                                   ELSE "return"]
           /\ engine' = IF InitRaises(f, s) THEN "ValueError" ELSE "constructed"
           /\ figi' = IF InitRaises(f, s) THEN figi ELSE o.figi
           /\ fast' = IF InitRaises(f, s) THEN fast ELSE o.fast
           /\ slow' = IF InitRaises(f, s) THEN slow ELSE o.slow
           /\ qty' = IF InitRaises(f, s) THEN qty ELSE o.qty
    /\ UNCHANGED <<df, position, stats, trace, clock>>
    /\ UNCHANGED <<gui, client, echo>>

\* ---------------------------------------------------------------- run
\* the instance the application runs: periods and lots of the settings
\* dialog, past the check of __init__
Init ==
    /\ engine = "constructed"
    /\ \E g \in Figis, f \in 1..MaxWindow, s \in 2..MaxWindow, q \in {1, MaxQty} :
        /\ ~InitRaises(f, s)
        /\ Holds(NewInstance(g, f, s, q))
        /\ call = [op |-> "__init__", outcome |-> "return", arg |-> <<f, s, q>>,
                   base |-> 0, pre |-> NewInstance("", 0, 0, 0)]
    /\ trace = <<>>
    /\ clock = 0
    /\ ModernWindow_init
    /\ InvestClient_init
    /\ EchoStrategy_init

\* calls made on the instance so far: every on_start and on_stop left one
\* event, every on_candle advanced the clock of the feed
Calls == Len(SelectSeq(trace, IsLifecycle)) + clock

\* calls the instance may receive; the instance with the shortest slow
\* period and the most lots gets one more, which is what two round trips
\* followed by on_stop take
CallBudget == IF slow = 2 /\ qty = MaxQty THEN MaxCalls + 1 ELSE MaxCalls

\* on_start without the new DataFrame
on_start_keep_df ==
    /\ engine = "constructed"
    /\ Calls < CallBudget
    /\ position_open' = FALSE
    /\ entry_price' = 0
    /\ total_profit' = 0
    /\ trades_count' = 0
    /\ winning_trades' = 0
    /\ trace' = Append(trace, [type |-> "strategy_started", fast_sma |-> fast,
                               slow_sma |-> slow, qty |-> qty])
    /\ call' = [op |-> "on_start", outcome |-> "return", arg |-> <<>>,
                base |-> Len(trace), pre |-> Fields]
    /\ UNCHANGED <<config, df, clock>>
    /\ UNCHANGED <<gui, client, echo>>

\* on_start that reports the start only of an instance that has run
on_start_once ==
    /\ engine = "constructed"
    /\ Calls < CallBudget
    /\ position_open' = FALSE
    /\ entry_price' = 0
    /\ total_profit' = 0
    /\ trades_count' = 0
    /\ winning_trades' = 0
    /\ df' = <<>>
    /\ trace' = IF df = <<>> /\ trace # <<>>
                THEN trace
                ELSE Append(trace, [type |-> "strategy_started",
                                    fast_sma |-> fast, slow_sma |-> slow,
                                    qty |-> qty])
    /\ call' = [op |-> "on_start", outcome |-> "return", arg |-> <<>>,
                base |-> Len(trace), pre |-> Fields]
    /\ UNCHANGED <<config, clock>>
    /\ UNCHANGED <<gui, client, echo>>

on_start ==
    /\ engine = "constructed"
    /\ Calls < CallBudget
    /\ position_open' = FALSE
    /\ entry_price' = 0
    /\ total_profit' = 0
    /\ trades_count' = 0
    /\ winning_trades' = 0
    /\ df' = <<>>
    /\ trace' = Append(trace, [type |-> "strategy_started", fast_sma |-> fast,
                               slow_sma |-> slow, qty |-> qty])
    /\ call' = [op |-> "on_start", outcome |-> "return", arg |-> <<>>,
                base |-> Len(trace), pre |-> Fields]
    /\ UNCHANGED <<config, clock>>
    /\ UNCHANGED <<gui, client, echo>>

\* the rate as a fraction of 1
WinRate_ratio(w, n) == IF n > 0 THEN [sum |-> w, n |-> n] ELSE [sum |-> 0, n |-> 1]

\* winning_trades / trades_count * 100, as the pair of its numerator and
\* denominator; 0 (the pair 0, 1) when there is no trade
WinRate(w, n) == IF n > 0 THEN [sum |-> w * 100, n |-> n] ELSE [sum |-> 0, n |-> 1]

\* on_stop that closes the position in the books
on_stop_flat ==
    /\ engine = "constructed"
    /\ Calls < CallBudget
    /\ trace' = Append(trace, [type |-> "strategy_stopped",
                               total_profit |-> total_profit,
                               trades_count |-> trades_count,
                               winning_trades |-> winning_trades,
                               win_rate |-> WinRate(winning_trades, trades_count)])
    /\ call' = [op |-> "on_stop", outcome |-> "return", arg |-> <<>>,
                base |-> Len(trace), pre |-> Fields]
    /\ position_open' = FALSE
    /\ UNCHANGED <<config, df, entry_price, stats, clock>>
    /\ UNCHANGED <<gui, client, echo>>

on_stop ==
    /\ engine = "constructed"
    /\ Calls < CallBudget
    /\ trace' = Append(trace, [type |-> "strategy_stopped",
                               total_profit |-> total_profit,
                               trades_count |-> trades_count,
                               winning_trades |-> winning_trades,
                               win_rate |-> WinRate(winning_trades, trades_count)])
    /\ call' = [op |-> "on_stop", outcome |-> "return", arg |-> <<>>,
                base |-> Len(trace), pre |-> Fields]
    /\ UNCHANGED <<config, df, position, stats, clock>>
    /\ UNCHANGED <<gui, client, echo>>

\* ---------------------------------------------------------------- on_candle
\* the warm-up ended one observation late
WarmingUp_long(d, s) == Len(d) <= s

\* the warm-up ended one observation early
WarmingUp_short(d, s) == Len(d) < s - 1

\* len(self.df) < self.slow
WarmingUp(d, s) == Len(d) < s

\* the entry test without the test of the position
EntrySignal_any(fast_ma, slow_ma, open) == Gt(fast_ma, slow_ma)

\* the entry test with >= for >
EntrySignal_ge(fast_ma, slow_ma, open) ==
    fast_ma.n # 0 /\ slow_ma.n # 0 /\ ~Lt(fast_ma, slow_ma) /\ ~open

\* fast_ma > slow_ma and not self.position_open
EntrySignal(fast_ma, slow_ma, open) == Gt(fast_ma, slow_ma) /\ ~open

\* the exit test without the position flag
ExitSignal_any(fast_ma, slow_ma, open) == Lt(fast_ma, slow_ma)

\* the exit test with <= for <
ExitSignal_le(fast_ma, slow_ma, open) ==
    fast_ma.n # 0 /\ slow_ma.n # 0 /\ ~Gt(fast_ma, slow_ma) /\ open

\* fast_ma < slow_ma and self.position_open
ExitSignal(fast_ma, slow_ma, open) == Lt(fast_ma, slow_ma) /\ open

\* the exception of the port caught inside on_candle
Propagate_swallow(res) == "return"

\* an exception of the awaited port call leaves on_candle as it is
Propagate(res) == res

\* the profit with the two prices swapped
Profit_swapped(price, entry, q) == (entry - price) * q

\* (current_price - self.entry_price) * self.qty
Profit(price, entry, q) == (price - entry) * q

\* what the client's place_market_order answers: ValueError for a
\* direction that is neither buy nor sell, else what the broker answers
place_market_order(direction, res) ==
    IF direction \notin {"buy", "sell"} THEN "ValueError" ELSE res

\* the invocation of the port as the trace records it: the arguments of
\* self.client.place_market_order(self.figi, qty=self.qty, direction=...)
\* and its answer
PlaceMarketOrder(direction, res) ==
    [type |-> "place_market_order", figi |-> figi, qty |-> qty,
     direction |-> direction, result |-> res]

\* the entry branch with the position opened before the order is awaited
Buy_open_first(s, ts, price, res) ==
    IF res # "ok"
    THEN [s EXCEPT !.out = Append(@, PlaceMarketOrder("buy", res)),
                   !.outcome = Propagate(res),
                   !.position_open = TRUE,
                   !.entry_price = price]
    ELSE [s EXCEPT !.out = @ \o <<PlaceMarketOrder("buy", res),
                                  [type |-> "trade_entry", timestamp |-> ts,
                                   price |-> price, direction |-> "buy",
                                   qty |-> qty]>>,
                   !.position_open = TRUE,
                   !.entry_price = price]

\* the entry branch that counts the trade when it is opened
Buy_counts(s, ts, price, res) ==
    IF res # "ok"
    THEN [s EXCEPT !.out = Append(@, PlaceMarketOrder("buy", res)),
                   !.outcome = Propagate(res)]
    ELSE [s EXCEPT !.out = @ \o <<PlaceMarketOrder("buy", res),
                                  [type |-> "trade_entry", timestamp |-> ts,
                                   price |-> price, direction |-> "buy",
                                   qty |-> qty]>>,
                   !.position_open = TRUE,
                   !.entry_price = price,
                   !.trades_count = @ + 1]

\* the entry branch without the assignment of entry_price
Buy_no_price(s, ts, price, res) ==
    IF res # "ok"
    THEN [s EXCEPT !.out = Append(@, PlaceMarketOrder("buy", res)),
                   !.outcome = Propagate(res)]
    ELSE [s EXCEPT !.out = @ \o <<PlaceMarketOrder("buy", res),
                                  [type |-> "trade_entry", timestamp |-> ts,
                                   price |-> price, direction |-> "buy",
                                   qty |-> qty]>>,
                   !.position_open = TRUE]

\* the entry branch with a failed order sent once more
Buy_retry(s, ts, price, res) ==
    IF res # "ok"
    THEN [s EXCEPT !.out = @ \o <<PlaceMarketOrder("buy", res),
                                  PlaceMarketOrder("buy", res)>>,
                   !.outcome = Propagate(res)]
    ELSE [s EXCEPT !.out = @ \o <<PlaceMarketOrder("buy", res),
                                  [type |-> "trade_entry", timestamp |-> ts,
                                   price |-> price, direction |-> "buy",
                                   qty |-> qty]>>,
                   !.position_open = TRUE,
                   !.entry_price = price]

\* the entry branch that asks the port to go long
Buy_long(s, ts, price, res) ==
    LET answer == place_market_order("long", res)
    IN IF answer # "ok"
       THEN [s EXCEPT !.out = Append(@, PlaceMarketOrder("long", answer)),
                      !.outcome = Propagate(answer)]
       ELSE [s EXCEPT !.out = @ \o <<PlaceMarketOrder("long", answer),
                                     [type |-> "trade_entry", timestamp |-> ts,
                                      price |-> price, direction |-> "buy",
                                      qty |-> qty]>>,
                      !.position_open = TRUE,
                      !.entry_price = price]

\* the entry branch; s is the call so far, res the answer of the broker
Buy(s, ts, price, res) ==
    LET answer == place_market_order("buy", res)
    IN IF answer # "ok"
       THEN [s EXCEPT !.out = Append(@, PlaceMarketOrder("buy", answer)),
                      !.outcome = Propagate(answer)]
       ELSE [s EXCEPT !.out = @ \o <<PlaceMarketOrder("buy", answer),
                                     [type |-> "trade_entry", timestamp |-> ts,
                                      price |-> price, direction |-> "buy",
                                      qty |-> qty]>>,
                      !.position_open = TRUE,
                      !.entry_price = price]

\* the exit branch with the position closed before the order is awaited
Sell_close_first(s, ts, price, res) ==
    LET profit == Profit(price, s.entry_price, qty)
    IN IF res # "ok"
       THEN [s EXCEPT !.out = Append(@, PlaceMarketOrder("sell", res)),
                      !.outcome = Propagate(res),
                      !.position_open = FALSE]
       ELSE [s EXCEPT !.out = @ \o <<PlaceMarketOrder("sell", res),
                                     [type |-> "trade_exit", timestamp |-> ts,
                                      price |-> price, direction |-> "sell",
                                      qty |-> qty, profit |-> profit,
                                      total_profit |-> s.total_profit + profit]>>,
                      !.total_profit = @ + profit,
                      !.trades_count = @ + 1,
                      !.winning_trades = IF profit > 0 THEN @ + 1 ELSE @,
                      !.position_open = FALSE]

\* the exit branch with the trade counted before the order is awaited
Sell_count_first(s, ts, price, res) ==
    LET profit == Profit(price, s.entry_price, qty)
    IN IF res # "ok"
       THEN [s EXCEPT !.out = Append(@, PlaceMarketOrder("sell", res)),
                      !.outcome = Propagate(res),
                      !.trades_count = @ + 1]
       ELSE [s EXCEPT !.out = @ \o <<PlaceMarketOrder("sell", res),
                                     [type |-> "trade_exit", timestamp |-> ts,
                                      price |-> price, direction |-> "sell",
                                      qty |-> qty, profit |-> profit,
                                      total_profit |-> s.total_profit + profit]>>,
                      !.total_profit = @ + profit,
                      !.trades_count = @ + 1,
                      !.winning_trades = IF profit > 0 THEN @ + 1 ELSE @,
                      !.position_open = FALSE]

\* the exit branch with the event sent before the order is awaited
Sell_event_first(s, ts, price, res) ==
    LET profit == Profit(price, s.entry_price, qty)
        event == [type |-> "trade_exit", timestamp |-> ts, price |-> price,
                  direction |-> "sell", qty |-> qty, profit |-> profit,
                  total_profit |-> s.total_profit + profit]
    IN IF res # "ok"
       THEN [s EXCEPT !.out = @ \o <<event, PlaceMarketOrder("sell", res)>>,
                      !.outcome = Propagate(res)]
       ELSE [s EXCEPT !.out = @ \o <<event, PlaceMarketOrder("sell", res)>>,
                      !.total_profit = @ + profit,
                      !.trades_count = @ + 1,
                      !.winning_trades = IF profit > 0 THEN @ + 1 ELSE @,
                      !.position_open = FALSE]

\* the exit branch without the count of the trade
Sell_no_count(s, ts, price, res) ==
    IF res # "ok"
    THEN [s EXCEPT !.out = Append(@, PlaceMarketOrder("sell", res)),
                   !.outcome = Propagate(res)]
    ELSE LET profit == Profit(price, s.entry_price, qty)
         IN [s EXCEPT !.out = @ \o <<PlaceMarketOrder("sell", res),
                                     [type |-> "trade_exit", timestamp |-> ts,
                                      price |-> price, direction |-> "sell",
                                      qty |-> qty, profit |-> profit,
                                      total_profit |-> s.total_profit + profit]>>,
                        !.total_profit = @ + profit,
                        !.winning_trades = IF profit > 0 THEN @ + 1 ELSE @,
                        !.position_open = FALSE]

\* the exit branch without the assignment of position_open
Sell_keeps_open(s, ts, price, res) ==
    IF res # "ok"
    THEN [s EXCEPT !.out = Append(@, PlaceMarketOrder("sell", res)),
                   !.outcome = Propagate(res)]
    ELSE LET profit == Profit(price, s.entry_price, qty)
         IN [s EXCEPT !.out = @ \o <<PlaceMarketOrder("sell", res),
                                     [type |-> "trade_exit", timestamp |-> ts,
                                      price |-> price, direction |-> "sell",
                                      qty |-> qty, profit |-> profit,
                                      total_profit |-> s.total_profit + profit]>>,
                        !.total_profit = @ + profit,
                        !.trades_count = @ + 1,
                        !.winning_trades = IF profit > 0 THEN @ + 1 ELSE @]

\* the exit branch
Sell(s, ts, price, res) ==
    IF place_market_order("sell", res) # "ok"
    THEN [s EXCEPT !.out = Append(@, PlaceMarketOrder("sell",
                                         place_market_order("sell", res))),
                   !.outcome = Propagate(place_market_order("sell", res))]
    ELSE LET profit == Profit(price, s.entry_price, qty)
         IN [s EXCEPT !.out = @ \o <<PlaceMarketOrder("sell", res),
                                     [type |-> "trade_exit", timestamp |-> ts,
                                      price |-> price, direction |-> "sell",
                                      qty |-> qty, profit |-> profit,
                                      total_profit |-> s.total_profit + profit]>>,
                        !.total_profit = @ + profit,
                        !.trades_count = @ + 1,
                        !.winning_trades = IF profit > 0 THEN @ + 1 ELSE @,
                        !.position_open = FALSE]

\* the row written over the last one of the frame
Loc_last(d, row) ==
    IF d = <<>> THEN <<row>> ELSE [d EXCEPT ![Len(d)] = row]

\* self.df.loc[len(self.df)] = row: the frame with the row at the label one
\* past its last
Loc(d, row) == Append(d, row)

\* the whole of on_candle on an instance of fields f: the fields after the
\* call, what it handed to the callback and the port (out), and how it
\* ended (outcome)
OnCandleFrom(f, candle, res) ==
    LET price == quotation_to_decimal(candle.close)
        ts == candle.time
        df1 == Loc(f.df, [time |-> ts, close |-> price])
        s0 == [df |-> df1, position_open |-> f.position_open,
               entry_price |-> f.entry_price, total_profit |-> f.total_profit,
               trades_count |-> f.trades_count,
               winning_trades |-> f.winning_trades,
               out |-> <<>>, outcome |-> "return"]
    IN IF WarmingUp(df1, f.slow) THEN s0
       ELSE LET fast_ma == RollingMean(df1, f.fast)
                slow_ma == RollingMean(df1, f.slow)
                s1 == [s0 EXCEPT !.out = <<[type |-> "indicators_update",
                                            timestamp |-> ts, price |-> price,
                                            fast_ma |-> fast_ma,
                                            slow_ma |-> slow_ma]>>]
            IN IF EntrySignal(fast_ma, slow_ma, f.position_open)
               THEN Buy(s1, ts, price, res)
               ELSE IF ExitSignal(fast_ma, slow_ma, f.position_open)
               THEN Sell(s1, ts, price, res)
               ELSE s1

\* on_candle on the instance as it is
OnCandle(candle, res) == OnCandleFrom(Fields, candle, res)

on_candle ==
    /\ engine = "constructed"
    /\ Calls < CallBudget
    /\ \E q \in Quotations, res \in PortResults :
        LET candle == [time |-> clock, close |-> q]
            r == OnCandle(candle, res)
        IN /\ df' = r.df
           /\ position_open' = r.position_open
           /\ entry_price' = r.entry_price
           /\ total_profit' = r.total_profit
           /\ trades_count' = r.trades_count
           /\ winning_trades' = r.winning_trades
           /\ trace' = trace \o r.out
           /\ call' = [op |-> "on_candle", outcome |-> r.outcome,
                       arg |-> <<candle>>, base |-> Len(trace), pre |-> Fields]
    /\ clock' = clock + 1
    /\ UNCHANGED config
    /\ UNCHANGED <<gui, client, echo>>

\* ---------------------------------------------------------------- specifications
Next == on_start \/ on_candle \/ on_stop

Spec == Init /\ [][Next]_vars

NextCtor == SmaCrossStrategy_init

\* before the constructor call, in a window that runs nothing
InitCtor ==
    NoEngine /\ ModernWindow_init /\ InvestClient_init /\ EchoStrategy_init

SpecCtor == InitCtor /\ [][NextCtor]_vars

\* ---------------------------------------------------------------- echo strategy
\* volumes of the candles of the feed
Volumes == {0, 1}

\* calls the echo instance may receive; every call leaves one event
EchoBudget == Len(trace) < MaxCalls

\* the counter as the call found it
EchoFields == [candle_count |-> candle_count]

\* on_stop of the echo strategy that starts the count again
EchoStrategy_on_stop_reset ==
    /\ EchoBudget
    /\ candle_count' = 0
    /\ trace' = Append(trace, [type |-> "strategy_stopped",
                               candles_processed |-> candle_count,
                               strategy_name |-> "EchoStrategy"])
    /\ call' = [op |-> "on_stop", outcome |-> "return", arg |-> <<>>,
                base |-> Len(trace), pre |-> EchoFields]
    /\ UNCHANGED <<config, df, position, stats, clock>>
    /\ UNCHANGED <<gui, client>>

EchoStrategy_on_start ==
    /\ EchoBudget
    /\ candle_count' = 0
    /\ trace' = Append(trace, [type |-> "strategy_started",
                               strategy_name |-> "EchoStrategy"])
    /\ call' = [op |-> "on_start", outcome |-> "return", arg |-> <<>>,
                base |-> Len(trace), pre |-> EchoFields]
    /\ UNCHANGED <<config, df, position, stats, clock>>
    /\ UNCHANGED <<gui, client>>

EchoStrategy_on_stop ==
    /\ EchoBudget
    /\ trace' = Append(trace, [type |-> "strategy_stopped",
                               candles_processed |-> candle_count,
                               strategy_name |-> "EchoStrategy"])
    /\ call' = [op |-> "on_stop", outcome |-> "return", arg |-> <<>>,
                base |-> Len(trace), pre |-> EchoFields]
    /\ UNCHANGED <<config, df, position, stats, clock, candle_count>>
    /\ UNCHANGED <<gui, client>>

EchoStrategy_on_candle ==
    /\ EchoBudget
    /\ \E q \in Quotations, v \in Volumes :
        LET c == [time |-> clock, close |-> q, volume |-> v]
        IN /\ trace' = Append(trace, [type |-> "candle_received",
                                      timestamp |-> c.time,
                                      price |-> quotation_to_decimal(c.close),
                                      volume |-> c.volume,
                                      candle_count |-> candle_count + 1])
           /\ call' = [op |-> "on_candle", outcome |-> "return", arg |-> <<c>>,
                       base |-> Len(trace), pre |-> EchoFields]
    /\ candle_count' = candle_count + 1
    /\ clock' = clock + 1
    /\ UNCHANGED <<config, df, position, stats>>
    /\ UNCHANGED <<gui, client>>

NextEcho == EchoStrategy_on_start \/ EchoStrategy_on_candle \/ EchoStrategy_on_stop

\* an echo instance after construction, in a window that runs nothing
InitEcho ==
    NoEngine /\ ModernWindow_init /\ InvestClient_init /\ EchoStrategy_init

SpecEcho == InitEcho /\ [][NextEcho]_vars

\* ---------------------------------------------------------------- event loop
\* the window, its tasks and its instances as one value
Gui ==
    [win |-> win, tasks |-> tasks, ready |-> ready, instances |-> instances,
     deliveries |-> deliveries]

Becomes(g) ==
    /\ win' = g.win
    /\ tasks' = g.tasks
    /\ ready' = g.ready
    /\ instances' = g.instances
    /\ deliveries' = g.deliveries

\* a task of the coroutine coro: where it stands (at), whether the loop will
\* run it (ready), it is suspended (waiting) or it is over (done), the task
\* it awaits, the instrument it subscribed to, whether its stream manager
\* was stopped
NewTask(coro, interval) ==
    [coro |-> coro, at |-> "new", state |-> "ready", must_cancel |-> FALSE,
     awaits |-> 0, interval |-> interval, figi |-> "", stopped |-> FALSE,
     result |-> ""]

\* the coroutines that never suspend and whose task nothing refers to
StrategyCoros == {"start_strategy", "stop_strategy"}

\* the entry of task t in the queue of the loop; id is 0 for the task of
\* a coroutine of StrategyCoros, which is kept nowhere else
Entry(g, t) == [coro |-> g.tasks[t].coro, id |-> t]

\* asyncio.create_task(coro): the task is scheduled behind the ready ones
create_task(g, coro, interval) ==
    IF coro \in StrategyCoros
    THEN [g EXCEPT !.ready = Append(@, [coro |-> coro, id |-> 0])]
    ELSE [g EXCEPT !.tasks = Append(@, NewTask(coro, interval)),
                   !.ready = Append(@, [coro |-> coro, id |-> Len(g.tasks) + 1])]

\* Task.cancel(): nothing for a finished task; a suspended task is woken
\* with CancelledError, a scheduled one gets it when it runs
cancel(g, t) ==
    IF g.tasks[t].state = "done" THEN g
    ELSE IF g.tasks[t].state = "ready"
    THEN [g EXCEPT !.tasks[t].must_cancel = TRUE]
    ELSE [g EXCEPT !.tasks[t].must_cancel = TRUE, !.tasks[t].state = "ready",
                   !.tasks[t].awaits = 0, !.ready = Append(@, Entry(g, t))]

\* the tasks that await task t, in the order they began to
Waiters(g, t) ==
    SelectSeq([i \in 1..Len(g.tasks) |-> Entry(g, i)],
              LAMBDA e : /\ g.tasks[e.id].state = "waiting"
                         /\ g.tasks[e.id].awaits = t)

\* task t is over: the tasks awaiting it are scheduled
finish(g, t, result) ==
    [g EXCEPT !.tasks = [i \in 1..Len(g.tasks) |->
                  IF i = t
                  THEN [g.tasks[i] EXCEPT !.state = "done", !.result = result,
                                          !.must_cancel = FALSE]
                  ELSE IF g.tasks[i].state = "waiting" /\ g.tasks[i].awaits = t
                  THEN [g.tasks[i] EXCEPT !.state = "ready", !.awaits = 0]
                  ELSE g.tasks[i]],
              !.ready = @ \o Waiters(g, t)]

\* task t suspends at an await
suspend(g, t, at, awaits) ==
    [g EXCEPT !.tasks[t].state = "waiting", !.tasks[t].at = at,
              !.tasks[t].awaits = awaits]

\* stream_mgr.stop() on the manager of stream task m: its generator ends,
\* which wakes the loop that waits for its next candle
stop(g, m) ==
    IF m = 0 THEN g
    ELSE IF g.tasks[m].state = "waiting" /\ g.tasks[m].at = "async for"
    THEN [g EXCEPT !.tasks[m].stopped = TRUE, !.tasks[m].state = "ready",
                   !.ready = Append(@, Entry(g, m))]
    ELSE [g EXCEPT !.tasks[m].stopped = TRUE]

\* tasks still to come from the ones that exist: every _async_change_stream
\* that is not over may create one _stream_candles
Unborn ==
    Cardinality({t \in DOMAIN tasks : /\ tasks[t].coro = "_async_change_stream"
                                      /\ tasks[t].state # "done"})

Room(n) == Len(tasks) + Unborn + n <= MaxTasks

\* start and stop requests the loop has not run yet
Queued == Len(SelectSeq(ready, LAMBDA e : e.coro \in StrategyCoros))

\* ---------------------------------------------------------------- handlers
\* change_stream(interval): its coroutine becomes a task
change_stream(g, interval) == create_task(g, "_async_change_stream", interval)

\* the timeframe box changed to another interval
_on_timeframe_change ==
    /\ ~win.closed
    /\ Room(2)
    /\ \E interval \in Intervals \ {win.interval} :
        Becomes(change_stream([Gui EXCEPT !.win.interval = interval], interval))
    /\ UNCHANGED <<strategy, client, echo>>

\* a token was saved in the settings: the stream of the current interval
\* is started again
_on_token_saved ==
    /\ ~win.closed
    /\ Room(2)
    /\ Becomes(change_stream(Gui, win.interval))
    /\ UNCHANGED <<strategy, client, echo>>

\* the instrument box changed to another instrument
_on_instrument_change ==
    /\ ~win.closed
    /\ Room(2)
    /\ win.strategy_running => Queued < MaxQueued
    /\ \E f \in Instruments \ {win.figi} :
        LET g == IF win.strategy_running
                 THEN create_task(Gui, "stop_strategy", win.interval)
                 ELSE Gui
        IN Becomes(change_stream([g EXCEPT !.win.figi = f], win.interval))
    /\ UNCHANGED <<strategy, client, echo>>

\* the start button, which is always enabled
_on_start_button_click ==
    /\ ~win.closed
    /\ Queued < MaxQueued
    /\ Len(instances) < MaxRuns
    /\ Becomes(create_task(Gui, "start_strategy", win.interval))
    /\ UNCHANGED <<strategy, client, echo>>

\* the slot of the stop button
_on_stop_button_click ==
    /\ ~win.closed
    /\ Queued < MaxQueued
    /\ Becomes(create_task(Gui, "stop_strategy", win.interval))
    /\ UNCHANGED <<strategy, client, echo>>

\* the window is closed: the stream task is cancelled and, when an instance
\* exists, stop_strategy becomes a task; _stream_task.cancel() raises
\* AttributeError when the field holds the candle generator, and the event
\* is then neither accepted nor followed by a stop
closeEvent ==
    /\ ~win.closed
    /\ win.strategy_instance # 0 => Queued < MaxQueued
    /\ LET g == IF win.stream_task.kind = "Task"
                THEN cancel(Gui, win.stream_task.id) ELSE Gui
           h == IF win.strategy_instance # 0
                THEN create_task(g, "stop_strategy", win.interval) ELSE g
       IN Becomes(IF win.stream_task.kind = "async_generator" THEN Gui
                  ELSE [h EXCEPT !.win.closed = TRUE])
    /\ UNCHANGED <<strategy, client, echo>>

\* ---------------------------------------------------------------- coroutines
\* the history length, the position and the trade count of an instance
Books(rows, open, trades) ==
    [rows |-> rows, position_open |-> open, trades_count |-> trades]

\* _create_strategy_instance followed by on_start: a new object for the
\* instrument figi with an empty history (rows), no position and no trade;
\* on_start, on_stop and stopped_at record the calls of the hooks and the
\* number of candles handed out when on_stop was called, final what on_stop
\* found, last the hook called last on the instance, or start_strategy when
\* a start_strategy has found it running since
Started(f) ==
    [figi |-> f, on_start |-> 1, on_stop |-> 0, stopped_at |-> 0,
     rows |-> 0, position_open |-> FALSE, trades_count |-> 0,
     final |-> Books(0, FALSE, 0), last |-> "on_start"]

\* start_strategy that takes the last instance again
start_strategy_reuse(g) ==
    LET last == g.instances[Len(g.instances)]
    IN IF g.win.strategy_instance # 0 THEN g
       ELSE IF g.instances = <<>>
       THEN [g EXCEPT !.instances = Append(@, Started(g.win.figi)),
                      !.win.strategy_instance = Len(g.instances) + 1]
       ELSE [g EXCEPT !.instances[Len(g.instances)] =
                          [last EXCEPT !.on_start = @ + 1, !.rows = 0,
                                       !.position_open = FALSE,
                                       !.trades_count = 0],
                      !.win.strategy_instance = Len(g.instances)]

\* start_strategy without the test for a running instance
start_strategy_again(g) ==
    [g EXCEPT !.instances = Append(@, Started(g.win.figi)),
              !.win.strategy_instance = Len(g.instances) + 1]

\* start_strategy: nothing when an instance exists, else a new instance
\* for the current instrument, whose on_start is awaited
start_strategy(g) ==
    IF g.win.strategy_instance # 0
    THEN [g EXCEPT !.instances[g.win.strategy_instance].last = "start_strategy"]
    ELSE [g EXCEPT !.instances = Append(@, Started(g.win.figi)),
                   !.win.strategy_instance = Len(g.instances) + 1]

\* stop_strategy that, with no instance in the window, stops the last one
\* once more
stop_strategy_last(g) ==
    IF g.win.strategy_instance = 0
    THEN IF g.instances = <<>> THEN g
         ELSE [g EXCEPT !.instances[Len(g.instances)].on_stop = @ + 1]
    ELSE [g EXCEPT !.instances[g.win.strategy_instance].on_stop = @ + 1,
                   !.instances[g.win.strategy_instance].stopped_at =
                       Len(g.deliveries),
                   !.instances[g.win.strategy_instance].last = "on_stop",
                   !.instances[g.win.strategy_instance].final =
                       Books(g.instances[g.win.strategy_instance].rows,
                             g.instances[g.win.strategy_instance].position_open,
                             g.instances[g.win.strategy_instance].trades_count),
                   !.win.strategy_instance = 0]

\* stop_strategy that calls on_stop and keeps the instance
stop_strategy_keep(g) ==
    IF g.win.strategy_instance = 0 THEN g
    ELSE [g EXCEPT !.instances[g.win.strategy_instance].on_stop = @ + 1,
                   !.instances[g.win.strategy_instance].stopped_at =
                       Len(g.deliveries),
                   !.instances[g.win.strategy_instance].last = "on_stop",
                   !.instances[g.win.strategy_instance].final =
                       Books(g.instances[g.win.strategy_instance].rows,
                             g.instances[g.win.strategy_instance].position_open,
                             g.instances[g.win.strategy_instance].trades_count)]

\* stop_strategy: nothing when no instance exists, else on_stop is awaited
\* and the instance is dropped
stop_strategy(g) ==
    IF g.win.strategy_instance = 0 THEN g
    ELSE [g EXCEPT !.instances[g.win.strategy_instance].on_stop = @ + 1,
                   !.instances[g.win.strategy_instance].stopped_at =
                       Len(g.deliveries),
                   !.instances[g.win.strategy_instance].last = "on_stop",
                   !.instances[g.win.strategy_instance].final =
                       Books(g.instances[g.win.strategy_instance].rows,
                             g.instances[g.win.strategy_instance].position_open,
                             g.instances[g.win.strategy_instance].trades_count),
                   !.win.strategy_instance = 0]

\* what an on_candle call of the stream loop does: it returns without a
\* trade, after an entry or after an exit, or it raises
OnCandleResults == {"return", "trade_entry", "trade_exit", "Exception"}

\* whether the instance can answer a candle that way: an entry needs a flat
\* position, an exit an open one
Answers(inst, res) ==
    /\ res = "trade_entry" => ~inst.position_open
    /\ res = "trade_exit" => inst.position_open

\* the instance after the on_candle call: one more row in any case, the
\* position and the trade count as the trade says
on_candle_of(inst, res) ==
    [inst EXCEPT !.rows = @ + 1,
                 !.last = "on_candle",
                 !.position_open = IF res = "trade_entry" THEN TRUE
                                   ELSE IF res = "trade_exit" THEN FALSE
                                   ELSE @,
                 !.trades_count = IF res = "trade_exit" THEN @ + 1 ELSE @]

\* the loop runs a task of start_strategy or stop_strategy, neither of
\* which suspends
StrategyTask ==
    /\ ready # <<>>
    /\ Head(ready).coro \in StrategyCoros
    /\ LET g == [Gui EXCEPT !.ready = Tail(@)]
       IN Becomes(IF Head(ready).coro = "start_strategy"
                  THEN start_strategy(g) ELSE stop_strategy(g))
    /\ UNCHANGED <<strategy, client, echo>>

\* lines 187-193 of _async_change_stream: the chart is cleared and the task
\* of _stream_candles for the requested interval is created and kept
StartStream(g, t) ==
    LET h == create_task(g, "_stream_candles", g.tasks[t].interval)
    IN finish([h EXCEPT !.win.stream_task = Task(Len(h.tasks))], t, "return")

\* the loop runs a task of _async_change_stream up to its await or its end
_async_change_stream ==
    /\ ready # <<>>
    /\ Head(ready).coro = "_async_change_stream"
    /\ LET t == Head(ready).id
           g == [Gui EXCEPT !.ready = Tail(@)]
           s == win.stream_task.id
           h == cancel(g, s)
       IN Becomes(
            IF tasks[t].at = "await" \/ win.stream_task.kind = "None"
            THEN StartStream(g, t)
            ELSE IF win.stream_task.kind = "async_generator"
            THEN finish(g, t, "AttributeError")
            ELSE IF h.tasks[s].state = "done"
            THEN StartStream(h, t)
            ELSE suspend(h, t, "await", s))
    /\ UNCHANGED <<strategy, client, echo>>

\* on_candle raised: the handler of lines 213-216 calls
\* _show_strategy_error, whose first statement, controls.strategy_error
\* (line 321), raises AttributeError, since ControlPanel defines no such
\* method; stop_strategy (line 216) is not reached
Handler(g) == g

\* the loop runs a task of _stream_candles up to its next await or its end;
\* the AttributeError of the handler leaves the loop through the except of
\* line 221 and the finally
_stream_candles ==
    /\ ready # <<>>
    /\ Head(ready).coro = "_stream_candles"
    /\ \E res \in OnCandleResults :
        LET t == Head(ready).id
            g == [Gui EXCEPT !.ready = Tail(@)]
            i == win.strategy_instance
            finally(h) == finish(stop([h EXCEPT !.tasks[t].must_cancel = FALSE],
                                      h.win.stream_mgr), t, "return")
            called == [g EXCEPT !.deliveries =
                           Append(@, [task |-> t, instance |-> i,
                                      figi |-> tasks[t].figi, result |-> res]),
                                !.instances[i] = on_candle_of(@, res)]
        IN /\ i # 0 => Answers(instances[i], res)
           /\ Becomes(
             IF tasks[t].at = "new"
             THEN IF tasks[t].must_cancel
                  THEN finish(g, t, "cancelled")
                  ELSE suspend([g EXCEPT !.tasks[t].figi = win.figi],
                               t, "stream_candles", 0)
             ELSE IF tasks[t].must_cancel \/ tasks[t].stopped
             THEN finally(g)
             ELSE IF tasks[t].at = "stream_candles"
             THEN suspend([g EXCEPT !.win.stream_mgr = t,
                                    !.win.stream_task = AsyncGenerator(t)],
                          t, "async for", 0)
             ELSE IF i = 0
             THEN suspend(g, t, "async for", 0)
             ELSE IF res # "Exception"
             THEN suspend(called, t, "async for", 0)
             ELSE finally(Handler(called)))
    /\ UNCHANGED <<strategy, client, echo>>

\* ---------------------------------------------------------------- network
\* the broker answered the subscription a stream task waits for
subscribed ==
    /\ \E t \in DOMAIN tasks :
        /\ tasks[t].state = "waiting"
        /\ tasks[t].at = "stream_candles"
        /\ tasks' = [tasks EXCEPT ![t].state = "ready"]
        /\ ready' = Append(ready, Entry(Gui, t))
    /\ UNCHANGED <<win, instances, deliveries, strategy, client, echo>>

\* stream loops woken by a candle that have not run yet
Woken ==
    Cardinality({t \in DOMAIN tasks : /\ tasks[t].state = "ready"
                                      /\ tasks[t].at = "async for"})

\* the broker sent a candle of the subscribed instrument to a stream loop
candle ==
    /\ Len(deliveries) + Woken < MaxCandles
    /\ \E t \in DOMAIN tasks :
        /\ tasks[t].state = "waiting"
        /\ tasks[t].at = "async for"
        /\ ~tasks[t].stopped
        /\ tasks' = [tasks EXCEPT ![t].state = "ready"]
        /\ ready' = Append(ready, Entry(Gui, t))
    /\ UNCHANGED <<win, instances, deliveries, strategy, client, echo>>

\* the window after construction, its strategy fields unused
InitGui ==
    ModernWindow_init /\ NoEngine /\ InvestClient_init /\ EchoStrategy_init

NextGui ==
    \/ _on_timeframe_change
    \/ _on_token_saved
    \/ _on_instrument_change
    \/ _on_start_button_click
    \/ _on_stop_button_click
    \/ StrategyTask
    \/ _async_change_stream
    \/ _stream_candles
    \/ subscribed
    \/ candle

SpecGui == InitGui /\ [][NextGui]_vars

\* a strategy run in a window whose timeframe and instrument are left alone:
\* the stream is the one a saved token starts
NextRun ==
    \/ _on_token_saved
    \/ _on_start_button_click
    \/ _on_stop_button_click
    \/ closeEvent
    \/ StrategyTask
    \/ _async_change_stream
    \/ _stream_candles
    \/ subscribed
    \/ candle

SpecRun == InitGui /\ [][NextRun]_vars

\* ---------------------------------------------------------------- broker
\* response.candle: the empty tuple is None, a tuple of one candle is that
\* candle; the stream of a manager carries candles of its subscription
CandlesOfStream ==
    {<<>>} \cup {<<[figi |-> subscription.figi, close |-> q]>> : q \in Quotations}

\* stream_candles(figi, interval): a stream manager is created and
\* subscribed to the candles of figi
stream_candles ==
    /\ subscription = NoSubscription
    /\ \E f \in Instruments, i \in Intervals :
        subscription' = [figi |-> f, interval |-> i]
    /\ UNCHANGED <<responses, cursor, yielded, accounts, account_call>>
    /\ UNCHANGED <<strategy, gui, echo>>

\* the broker sends a response on the stream, with a candle or without
response ==
    /\ subscription # NoSubscription
    /\ Len(responses) < MaxResponses
    /\ \E c \in CandlesOfStream : responses' = Append(responses, [candle |-> c])
    /\ UNCHANGED <<subscription, cursor, yielded, accounts, account_call>>
    /\ UNCHANGED <<strategy, gui, echo>>

\* the test of candle_generator with responses of no candle let through
Yields_every(r) == TRUE

\* the test of candle_generator: if response.candle
Yields(r) == r.candle # <<>>

\* candle_generator takes the next response and yields its candle if it
\* has one
candle_generator ==
    /\ cursor < Len(responses)
    /\ cursor' = cursor + 1
    /\ yielded' = IF Yields(responses[cursor + 1])
                  THEN Append(yielded, responses[cursor + 1].candle)
                  ELSE yielded
    /\ UNCHANGED <<subscription, responses, accounts, account_call>>
    /\ UNCHANGED <<strategy, gui, echo>>

\* ---------------------------------------------------------------- sandbox
\* what a request to the sandbox service answers: its result or an error
RpcResults == {"ok", "RequestError"}

\* the id open_sandbox_account gives the account it opens; ids are
\* positive, 0 stands for an empty id
NewAccountId(accs) == Len(accs) + MaxAccounts + 1

\* the account _get_sandbox_account_id takes of a list of accounts, were
\* it the last
TakenAccount_last(accs) == accs[Len(accs)]

\* the account _get_sandbox_account_id takes of a list of accounts:
\* accounts.accounts[0]
TakenAccount(accs) == accs[1]

\* _get_sandbox_account_id(client): the accounts are listed; if there is
\* none, one is opened and its id returned, else the id of the first is
\* returned; an error of either request is raised to the caller
_get_sandbox_account_id ==
    /\ \E listed \in RpcResults, opened \in RpcResults :
        IF listed # "ok"
        THEN /\ account_call' = [outcome |-> listed, seen |-> accounts, id |-> 0]
             /\ UNCHANGED accounts
        ELSE IF accounts # <<>>
        THEN /\ account_call' = [outcome |-> "return", seen |-> accounts,
                                 id |-> TakenAccount(accounts)]
             /\ UNCHANGED accounts
        ELSE IF opened # "ok"
        THEN /\ account_call' = [outcome |-> opened, seen |-> accounts, id |-> 0]
             /\ UNCHANGED accounts
        ELSE /\ account_call' = [outcome |-> "return", seen |-> accounts,
                                 id |-> NewAccountId(accounts)]
             /\ accounts' = Append(accounts, NewAccountId(accounts))
    /\ UNCHANGED <<subscription, responses, cursor, yielded>>
    /\ UNCHANGED <<strategy, gui, echo>>

\* lists of distinct account ids the sandbox may hold before the first call
AccountLists ==
    {<<>>} \cup {<<a>> : a \in 1..MaxAccounts}
           \cup {ab \in (1..MaxAccounts) \X (1..MaxAccounts) : ab[1] # ab[2]}

\* an InvestClient that opened no stream yet, on a sandbox of some accounts
InitClient ==
    /\ NoEngine
    /\ ModernWindow_init
    /\ subscription = NoSubscription
    /\ responses = <<>>
    /\ cursor = 0
    /\ yielded = <<>>
    /\ accounts \in AccountLists
    /\ account_call = NoAccountCall
    /\ EchoStrategy_init

NextClient ==
    \/ stream_candles
    \/ response
    \/ candle_generator
    \/ _get_sandbox_account_id

SpecClient == InitClient /\ [][NextClient]_vars

\* ---------------------------------------------------------------- properties
\* what the last call handed to the callback and the port
CallOut == SubSeq(trace, call.base + 1, Len(trace))

\* the last call placed an order of this direction and the port failed
FailedOrder(direction) ==
    \E i \in 1..Len(CallOut) :
        /\ IsOrder(CallOut[i])
        /\ CallOut[i].direction = direction
        /\ CallOut[i].result # "ok"

\* the last call emitted an event of this type
Emitted(type) == \E i \in 1..Len(CallOut) : CallOut[i].type = type

\* the row on_candle appends for the candle of the last call
CandleRow ==
    [time |-> call.arg[1].time, close |-> quotation_to_decimal(call.arg[1].close)]

PositionKept ==
    /\ position_open = call.pre.position_open
    /\ entry_price = call.pre.entry_price

StatsKept ==
    /\ total_profit = call.pre.total_profit
    /\ trades_count = call.pre.trades_count
    /\ winning_trades = call.pre.winning_trades

\* C1: a constructor call with fast >= slow (fast = slow included) ends with
\* ValueError and leaves no constructed engine.
C1_FastNotBelowSlowRejected ==
    (call.op = "__init__" /\ call.arg[1] >= call.arg[2])
        => (call.outcome = "ValueError" /\ engine # "constructed")

C1_Witness ==
    /\ call.op = "__init__"
    /\ call.arg[1] = call.arg[2]
    /\ call.outcome = "ValueError"

\* C2: a constructor call with fast <= 0 or slow <= 0 ends with an error and
\* leaves no constructed engine, also when fast < slow.
C2_NonPositiveRejected ==
    (call.op = "__init__" /\ (call.arg[1] <= 0 \/ call.arg[2] <= 0))
        => (call.outcome # "return" /\ engine # "constructed")

\* C3: after an on_candle call whose buy order failed, the position is still
\* flat, entry_price is the one before the call, and the call emitted no
\* trade_entry.
C3_EntryFailureIsolated ==
    (call.op = "on_candle" /\ FailedOrder("buy"))
        => /\ position_open = FALSE
           /\ entry_price = call.pre.entry_price
           /\ ~Emitted("trade_entry")

C3_Witness ==
    /\ call.op = "on_candle"
    /\ FailedOrder("buy")
    /\ call.outcome = "OrderError"
    /\ ~position_open

\* C4: after an on_candle call whose sell order failed, the position is still
\* open, entry_price and the three statistics are those before the call, and
\* the call emitted no trade_exit.
C4_ExitFailureIsolated ==
    (call.op = "on_candle" /\ FailedOrder("sell"))
        => /\ position_open = TRUE
           /\ entry_price = call.pre.entry_price
           /\ StatsKept
           /\ ~Emitted("trade_exit")

C4_Witness ==
    /\ call.op = "on_candle"
    /\ FailedOrder("sell")
    /\ call.outcome = "OrderError"
    /\ position_open

\* C5 as claimed: after an on_candle call that ended with the error of the
\* port, every field of the engine, the price history included, is what it
\* was before the call.
C5_NoMutationAtAll ==
    (call.op = "on_candle" /\ call.outcome # "return") => Fields = call.pre

\* C5 as amended: after an on_candle call that ended with the error of the
\* port, position_open, entry_price, total_profit, trades_count and
\* winning_trades are what they were before the call, and the price history
\* is the one before the call with the observation of the call appended.
C5_FailureKeepsPositionAndStats ==
    (call.op = "on_candle" /\ call.outcome # "return")
        => /\ PositionKept
           /\ StatsKept
           /\ df = Append(call.pre.df, CandleRow)

C5_Witness ==
    /\ call.op = "on_candle"
    /\ call.outcome # "return"
    /\ call.pre.position_open
    /\ Len(df) = Len(call.pre.df) + 1

\* the orders of the last call
CallOrders == SelectSeq(CallOut, IsOrder)

\* C6: an on_candle call ends with an error exactly when the order it placed
\* failed, and the error is the one the port answered.
C6_PortFailurePropagates ==
    call.op = "on_candle"
        => /\ (call.outcome # "return")
                <=> (\E i \in 1..Len(CallOrders) : CallOrders[i].result # "ok")
           /\ \A i \in 1..Len(CallOrders) :
                CallOrders[i].result # "ok" => call.outcome = CallOrders[i].result

C6_Witness ==
    /\ call.op = "on_candle"
    /\ call.outcome = "OrderError"
    /\ Len(CallOrders) = 1
    /\ CallOrders[1].result = "OrderError"

\* C7: an on_candle call after which the history holds fewer than slow
\* observations returns without an order or an event, and changes nothing
\* but the history, which gains the observation.
C7_WarmUpNoOp ==
    (call.op = "on_candle" /\ Len(df) < slow)
        => /\ CallOut = <<>>
           /\ call.outcome = "return"
           /\ PositionKept
           /\ StatsKept
           /\ df = Append(call.pre.df, CandleRow)

\* the last observation of a warm-up that follows a restart
C7_Witness ==
    /\ call.op = "on_candle"
    /\ Len(df) = slow - 1
    /\ slow = MaxWindow
    /\ clock > Len(df)

\* the averages the last on_candle call saw: the history holds the observation
FastMa == RollingMean(df, fast)
SlowMa == RollingMean(df, slow)

\* the last on_candle call saw fast_ma > slow_ma with the position flat
SawEntry ==
    /\ call.op = "on_candle"
    /\ Len(df) >= slow
    /\ Gt(FastMa, SlowMa)
    /\ ~call.pre.position_open

\* the last on_candle call saw fast_ma < slow_ma with the position open
SawExit ==
    /\ call.op = "on_candle"
    /\ Len(df) >= slow
    /\ Lt(FastMa, SlowMa)
    /\ call.pre.position_open

TradeEntryOf(row) ==
    [type |-> "trade_entry", timestamp |-> row.time, price |-> row.close,
     direction |-> "buy", qty |-> qty]

\* C8: an on_candle call that sees fast_ma > slow_ma with the position flat
\* places exactly one order, a buy of qty lots; when the port answers ok it
\* leaves position_open true and entry_price the close of the candle and
\* emits exactly one trade_entry with that time, price, buy and qty.
C8_EntryTransition ==
    SawEntry
        => /\ Len(CallOrders) = 1
           /\ CallOrders[1].direction = "buy"
           /\ CallOrders[1].qty = qty
           /\ CallOrders[1].result = "ok"
                => /\ position_open
                   /\ entry_price = CandleRow.close
                   /\ SelectSeq(CallOut, LAMBDA e : e.type \in {"trade_entry", "trade_exit"})
                        = <<TradeEntryOf(CandleRow)>>

C8_Witness ==
    /\ SawEntry
    /\ CallOrders[1].result = "ok"
    /\ position_open
    /\ entry_price # call.pre.entry_price
    /\ qty > 1

\* the events of the trace before the last call
EventsBefore == SelectSeq(SubSeq(trace, 1, call.base), IsEvent)

\* the price of the last trade_entry before the last call
RECURSIVE LastEntryPrice(_)
LastEntryPrice(es) ==
    IF es = <<>> THEN 0
    ELSE IF es[Len(es)].type = "trade_entry" THEN es[Len(es)].price
    ELSE LastEntryPrice(SubSeq(es, 1, Len(es) - 1))

\* C9: an on_candle call that sees fast_ma < slow_ma with the position open
\* and whose sell succeeds emits exactly one trade_exit, with profit =
\* (close - price of the matching trade_entry) * qty; total_profit grows by
\* that profit, trades_count by 1, winning_trades by 1 exactly when the
\* profit is positive, and position_open becomes false.
C9_ExitAndProfit ==
    (SawExit /\ call.outcome = "return")
        => LET exits == SelectSeq(CallOut, LAMBDA e : e.type = "trade_exit")
               profit == (CandleRow.close - LastEntryPrice(EventsBefore)) * qty
           IN /\ Len(exits) = 1
              /\ exits[1].profit = profit
              /\ exits[1].price = CandleRow.close
              /\ total_profit = call.pre.total_profit + profit
              /\ exits[1].total_profit = total_profit
              /\ trades_count = call.pre.trades_count + 1
              /\ winning_trades = call.pre.winning_trades
                                    + (IF profit > 0 THEN 1 ELSE 0)
              /\ ~position_open

\* a winning exit of more than one lot
C9_Witness ==
    /\ SawExit
    /\ call.outcome = "return"
    /\ winning_trades = call.pre.winning_trades + 1
    /\ total_profit > 1

\* the index of the last strategy_started of the trace, 0 without one
RECURSIVE LastStart(_)
LastStart(n) ==
    IF n = 0 THEN 0
    ELSE IF trace[n].type = "strategy_started" THEN n
    ELSE LastStart(n - 1)

\* callback and port invocations since the last on_start
Run == SubSeq(trace, LastStart(Len(trace)) + 1, Len(trace))

\* the observation at index i of the history is past the warm-up and its
\* fast average is strictly above its slow one
CrossAt(i) ==
    /\ i >= slow
    /\ Gt(RollingMean(SubSeq(df, 1, i), fast), RollingMean(SubSeq(df, 1, i), slow))

Crosses == {i \in 1..Len(df) : CrossAt(i)}

FirstCross == CHOOSE i \in Crosses : \A j \in Crosses : i <= j

\* the trade events of the run up to its first trade_exit
RECURSIVE UntilExit(_)
UntilExit(es) ==
    IF es = <<>> THEN <<>>
    ELSE IF es[1].type = "trade_exit" THEN <<>>
    ELSE IF es[1].type = "trade_entry" THEN <<es[1]>> \o UntilExit(Tail(es))
    ELSE UntilExit(Tail(es))

\* C10: in a run whose orders all succeeded, there is a trade_entry exactly
\* when some observation past the warm-up has fast_ma > slow_ma; the first
\* trade_entry is a buy that carries the time and close of the first such
\* observation, and it is the only trade_entry before the first trade_exit.
C10_EntryDeterminism ==
    (\A i \in 1..Len(Run) : IsOrder(Run[i]) => Run[i].result = "ok")
        => LET entries == UntilExit(Run)
           IN IF Crosses = {}
              THEN entries = <<>>
              ELSE entries = <<TradeEntryOf(df[FirstCross])>>

\* the first entry of a restarted run comes two observations after the
\* warm-up
C10_Witness ==
    /\ \A i \in 1..Len(Run) : IsOrder(Run[i]) => Run[i].result = "ok"
    /\ Crosses # {}
    /\ FirstCross = slow + 2
    /\ Len(UntilExit(Run)) = 1
    /\ LastStart(Len(trace)) > 0

\* the trade events of the last call
CallTrades == SelectSeq(CallOut, LAMBDA e : e.type \in {"trade_entry", "trade_exit"})

\* C11: an on_candle call that finds the position open and sees
\* fast_ma > slow_ma places no buy order and emits no trade_entry, and the
\* position stays open.
C11_NoDuplicateEntry ==
    (call.op = "on_candle" /\ call.pre.position_open
        /\ Len(df) >= slow /\ Gt(FastMa, SlowMa))
        => /\ \A i \in 1..Len(CallOut) :
                /\ CallOut[i].type # "trade_entry"
                /\ IsOrder(CallOut[i]) => CallOut[i].direction # "buy"
           /\ position_open

\* the observation after the one that opened the position, the fast average
\* still above the slow one
C11_Witness ==
    /\ call.op = "on_candle"
    /\ call.pre.position_open
    /\ Len(df) >= slow
    /\ Gt(FastMa, SlowMa)
    /\ call.pre.entry_price = call.pre.df[Len(call.pre.df)].close

\* the two averages of the last call are equal
Tie == FastMa.n # 0 /\ SlowMa.n # 0 /\ ~Gt(FastMa, SlowMa) /\ ~Lt(FastMa, SlowMa)

\* C12: an on_candle call past the warm-up that sees fast_ma = slow_ma, or
\* fast_ma > slow_ma with the position open, or fast_ma < slow_ma with the
\* position flat, places no order, emits no trade event and leaves the
\* position and the statistics as they were.
C12_NoOpOnTieOrContrary ==
    (call.op = "on_candle" /\ Len(df) >= slow
        /\ \/ Tie
           \/ Gt(FastMa, SlowMa) /\ call.pre.position_open
           \/ Lt(FastMa, SlowMa) /\ ~call.pre.position_open)
        => /\ CallOrders = <<>>
           /\ CallTrades = <<>>
           /\ call.outcome = "return"
           /\ PositionKept
           /\ StatsKept

\* a tie seen with the position open
C12_Witness ==
    /\ call.op = "on_candle"
    /\ Len(df) >= slow
    /\ Tie
    /\ call.pre.position_open
    /\ position_open

\* C13: an on_candle call after which the history holds at least slow
\* observations emits exactly one indicators_update, before anything else,
\* with the time and close of the candle and the two averages, whatever the
\* signal and whatever the port answers.
C13_IndicatorsEveryTick ==
    (call.op = "on_candle" /\ Len(df) >= slow)
        => /\ SelectSeq(CallOut, LAMBDA e : e.type = "indicators_update")
                = <<[type |-> "indicators_update", timestamp |-> CandleRow.time,
                     price |-> CandleRow.close, fast_ma |-> FastMa,
                     slow_ma |-> SlowMa]>>
           /\ CallOut[1].type = "indicators_update"

\* the indicators of a call whose order the port refused
C13_Witness ==
    /\ call.op = "on_candle"
    /\ Len(df) = slow
    /\ call.outcome = "OrderError"
    /\ CallOut[1].type = "indicators_update"
    /\ CallOut[1].fast_ma # CallOut[1].slow_ma

\* the trade_exit events since the last on_start
RunExits == SelectSeq(Run, LAMBDA e : e.type = "trade_exit")

RECURSIVE SumProfit(_)
SumProfit(es) == IF es = <<>> THEN 0 ELSE es[1].profit + SumProfit(Tail(es))

RECURSIVE Wins(_)
Wins(es) ==
    IF es = <<>> THEN 0
    ELSE (IF es[1].profit > 0 THEN 1 ELSE 0) + Wins(Tail(es))

\* C14: the strategy_stopped of an on_stop call carries trades_count = the
\* number N of trade_exit events since the last on_start, total_profit =
\* the sum of their profits, winning_trades = the number of them with a
\* positive profit, and win_rate = winning_trades / N * 100, or 0 when N = 0.
C14_StopStatistics ==
    call.op = "on_stop"
        => LET ev == trace[Len(trace)]
               n == Len(RunExits)
               w == Wins(RunExits)
           IN /\ ev.type = "strategy_stopped"
              /\ ev.trades_count = n
              /\ ev.total_profit = SumProfit(RunExits)
              /\ ev.winning_trades = w
              /\ ev.win_rate.n > 0
              /\ IF n > 0
                 THEN ev.win_rate.sum * n = w * 100 * ev.win_rate.n
                 ELSE ev.win_rate.sum = 0

\* on_stop after two round trips
C14_Witness ==
    /\ call.op = "on_stop"
    /\ Len(RunExits) = 2
    /\ trace[Len(trace)].total_profit = RunExits[1].profit + RunExits[2].profit
    /\ RunExits[1].profit # 0

\* C15: after an on_start call the history is empty, the position is flat,
\* entry_price and the three statistics are 0, and the call emitted exactly
\* one event, strategy_started with fast, slow and qty.
C15_StartResets ==
    call.op = "on_start"
        => /\ df = <<>>
           /\ ~position_open
           /\ entry_price = 0
           /\ total_profit = 0 /\ trades_count = 0 /\ winning_trades = 0
           /\ CallOut = <<[type |-> "strategy_started", fast_sma |-> fast,
                           slow_sma |-> slow, qty |-> qty]>>
           /\ <<figi, fast, slow, qty>>
                = <<call.pre.figi, call.pre.fast, call.pre.slow, call.pre.qty>>

\* on_start on an engine with an open position and a completed trade
C15_Witness ==
    /\ call.op = "on_start"
    /\ call.pre.position_open
    /\ call.pre.trades_count > 0
    /\ call.pre.total_profit # 0
    /\ Len(call.pre.df) > 0

\* C16: an on_stop call leaves the history, the position and the statistics
\* as they were, places no order and emits only strategy_stopped.
C16_StopKeepsState ==
    call.op = "on_stop"
        => /\ Fields = call.pre
           /\ CallOrders = <<>>
           /\ Len(CallOut) = 1

\* on_stop on an engine with an open position
C16_Witness ==
    /\ call.op = "on_stop"
    /\ position_open
    /\ entry_price > 0
    /\ Len(df) >= slow

\* the last call placed an order of this direction and the port accepted it
ConfirmedOrder(direction) ==
    \E i \in 1..Len(CallOrders) :
        CallOrders[i].direction = direction /\ CallOrders[i].result = "ok"

\* C17 as claimed: a call after which one of total_profit, trades_count and
\* winning_trades differs from before is an on_candle call that closed the
\* position with a successful sell.
C17_StatsChangeOnlyAtExit ==
    ~StatsKept
        => /\ call.op = "on_candle"
           /\ ConfirmedOrder("sell")
           /\ call.pre.position_open /\ ~position_open

\* C17 as amended: a call after which one of the three statistics differs
\* from before is an on_candle call that closed the position with a
\* successful sell, or an on_start call, which leaves all three 0.
C17_StatsChangeAtExitOrStart ==
    ~StatsKept
        => \/ /\ call.op = "on_candle"
              /\ ConfirmedOrder("sell")
              /\ call.pre.position_open /\ ~position_open
           \/ /\ call.op = "on_start"
              /\ total_profit = 0 /\ trades_count = 0 /\ winning_trades = 0

\* the second exit of a run
C17_Witness ==
    /\ call.op = "on_candle"
    /\ ConfirmedOrder("sell")
    /\ call.pre.trades_count = 1
    /\ trades_count = 2
    /\ total_profit # call.pre.total_profit

\* C18 as claimed: a call after which position_open or entry_price differs
\* from before is an on_candle call whose order the port accepted.
C18_PositionChangesOnlyOnConfirmedOrder ==
    ~PositionKept
        => /\ call.op = "on_candle"
           /\ \E i \in 1..Len(CallOrders) : CallOrders[i].result = "ok"

\* C18 as amended: a call after which position_open or entry_price differs
\* from before is an on_candle call whose order the port accepted, or an
\* on_start call, which leaves the position flat and entry_price 0.
C18_PositionChangesOnConfirmedOrderOrStart ==
    ~PositionKept
        => \/ /\ call.op = "on_candle"
              /\ \E i \in 1..Len(CallOrders) : CallOrders[i].result = "ok"
           \/ /\ call.op = "on_start"
              /\ ~position_open
              /\ entry_price = 0

\* a confirmed buy that replaces the entry_price of an earlier round trip
C18_Witness ==
    /\ call.op = "on_candle"
    /\ ConfirmedOrder("buy")
    /\ position_open /\ ~call.pre.position_open
    /\ call.pre.entry_price > 0
    /\ trades_count > 0

\* ---------------------------------------------------------------- window claims
\* stream task t is in its candle loop
Streaming(t) ==
    /\ tasks[t].coro = "_stream_candles"
    /\ tasks[t].at = "async for"
    /\ tasks[t].state # "done"

\* C19: at most one stream task delivers candles to a strategy instance at
\* any time: no instance has been handed candles by two stream tasks that
\* are both still in their candle loop
C19_OneFeedPerInstance ==
    \A a \in DOMAIN deliveries, b \in DOMAIN deliveries :
        /\ deliveries[a].instance = deliveries[b].instance
        /\ deliveries[a].task # deliveries[b].task
        => ~(Streaming(deliveries[a].task) /\ Streaming(deliveries[b].task))

\* C20: an instance started for one instrument is stopped when the
\* instrument is changed, so every candle handed to an instance is a candle
\* of the instrument the instance was created for
C20_NoCandleOfNewInstrument ==
    \A d \in DOMAIN deliveries :
        deliveries[d].figi = instances[deliveries[d].instance].figi

\* C21: once an on_candle call of the stream loop has raised, on_stop has
\* been invoked once on the instance, the window has dropped the instance,
\* and the raising call is the last candle the instance was handed
C21_CallerHaltsOnFailure ==
    \A d \in DOMAIN deliveries :
        deliveries[d].result = "Exception"
        => /\ instances[deliveries[d].instance].on_stop = 1
           /\ win.strategy_instance # deliveries[d].instance
           /\ \A e \in DOMAIN deliveries :
                e > d => deliveries[e].instance # deliveries[d].instance

\* candles handed to instance k
CandlesOf(k) == {d \in DOMAIN deliveries : deliveries[d].instance = k}

\* C22: an instance on which stop_strategy called on_stop is not the
\* window's instance again and is handed no candle after that call; the
\* instance start_strategy created has, before its first candle, an empty
\* history, no position and no trade, whatever the instances before it hold
C22_RunLifecycle ==
    \A k \in DOMAIN instances :
        /\ instances[k].on_stop > 0
           => /\ win.strategy_instance # k
              /\ \A d \in CandlesOf(k) : d <= instances[k].stopped_at
        /\ (win.strategy_instance = k /\ CandlesOf(k) = {})
           => /\ instances[k].rows = 0
              /\ ~instances[k].position_open
              /\ instances[k].trades_count = 0

\* a second instance was started after a first, which had been handed
\* candles and had an open position when it was stopped
C22_Witness ==
    /\ win.strategy_instance = 2
    /\ CandlesOf(2) = {}
    /\ instances[1].on_stop = 1
    /\ instances[1].rows > 0
    /\ instances[1].position_open

\* ---------------------------------------------------------------- client claims
\* the candles of the responses rs that carry one, in the order of rs
CandlesIn(rs) ==
    LET carrying == SelectSeq(rs, LAMBDA r : r.candle # <<>>)
    IN [k \in 1..Len(carrying) |-> carrying[k].candle]

Retained(d) ==
    LET keep == IF fast > slow THEN fast ELSE slow
    IN IF Len(d) <= keep THEN d ELSE SubSeq(d, Len(d) - keep + 1, Len(d))

\* what the port answered in the last call, "ok" when it was not invoked
CallResult ==
    IF \E i \in DOMAIN CallOut : IsOrder(CallOut[i])
    THEN (CHOOSE e \in {CallOut[i] : i \in DOMAIN CallOut} : IsOrder(e)).result
    ELSE "ok"

\* the last on_candle call as the engine with the bounded history makes it:
\* from the same fields but for the history, of which it kept the retained
\* rows
BoundedCall ==
    OnCandleFrom([call.pre EXCEPT !.df = Retained(call.pre.df)],
                 call.arg[1], CallResult)

RECURSIVE SumCloses(_, _, _)
SumCloses(d, lo, hi) ==
    IF lo > hi THEN 0 ELSE d[lo].close + SumCloses(d, lo + 1, hi)

\* the sum of the last n closes of the history after the last call
LastCloses(n) == SumCloses(df, Len(df) - n + 1, Len(df))

\* the indicators_update event of the last call
IndicatorsOfCall ==
    CHOOSE e \in {CallOut[i] : i \in DOMAIN CallOut} : e.type = "indicators_update"

C27_HistoryAppendOnly ==
    /\ call.op \in {"__init__", "on_start"} => df = <<>>
    /\ call.op = "on_candle" => df = Append(call.pre.df, CandleRow)
    /\ call.op = "on_stop" => df = call.pre.df
    /\ \A i \in DOMAIN df : df[i].time = clock - Len(df) + i - 1
    /\ \A i, j \in DOMAIN df : i < j => df[i].time <= df[j].time

\* a warm-up tick after an on_start that followed earlier ticks, and a
\* history of several rows
C27_Witness ==
    /\ call.op = "on_candle"
    /\ CallOut = <<>>
    /\ Len(df) >= 2
    /\ df[1].time > 0
    /\ df[1].close # df[2].close

\* C28: an on_candle call invokes the order port at most once, also when
\* the invocation fails, and emits at most one trade event, so never a
\* trade_entry and a trade_exit together
C28_OneBranchPerCall ==
    call.op = "on_candle"
    => /\ Len(CallOrders) <= 1
       /\ Len(CallTrades) <= 1
       /\ ~(Emitted("trade_entry") /\ Emitted("trade_exit"))
       /\ Len(CallTrades) <= Len(CallOrders)

\* a call whose order failed: the port was invoked once and no trade event
\* followed
C28_Witness ==
    /\ call.op = "on_candle"
    /\ call.outcome # "return"
    /\ Len(CallOrders) = 1
    /\ CallOrders[1].result # "ok"
    /\ CallTrades = <<>>

\* the last call is an on_start that followed an on_start with no call
\* between them: the event before it is strategy_started and no row was
\* appended since
SecondStart ==
    /\ call.op = "on_start"
    /\ call.base >= 1
    /\ trace[call.base].type = "strategy_started"
    /\ call.pre.df = <<>>

\* C29: on_start called twice in a row leaves the engine as the first call
\* left it (empty history, flat, zero statistics); what the second call
\* adds is its own strategy_started event, equal to the first
C29_StartTwice ==
    SecondStart
    => /\ Fields = call.pre
       /\ df = <<>>
       /\ ~position_open
       /\ total_profit = 0 /\ trades_count = 0 /\ winning_trades = 0
       /\ Len(CallOut) = 1
       /\ CallOut[1].type = "strategy_started"
       /\ CallOut[1] = trace[call.base]

\* two on_start calls in a row, on an instance that had traded before
C29_Witness ==
    /\ SecondStart
    /\ \E i \in DOMAIN trace : trace[i].type = "trade_exit"

\* the tasks of _async_change_stream, one per change_stream request, and
\* the stream tasks that are not over
ChangeTasks == {t \in DOMAIN tasks : tasks[t].coro = "_async_change_stream"}
RunningStreams ==
    {t \in DOMAIN tasks : tasks[t].coro = "_stream_candles"
                          /\ tasks[t].state # "done"}

\* the task of the most recent change_stream request
LastChange == CHOOSE t \in ChangeTasks : \A u \in ChangeTasks : u <= t

\* C30: change_stream replaces the stream: once every change_stream request
\* has been worked off, the most recent one has run to the creation of its
\* stream task, the stream tasks that ran before it are over, and no stream
\* task but the one created for the most recently requested interval is
\* running
C30_ChangeStreamReplaces ==
    (ChangeTasks # {} /\ \A t \in ChangeTasks : tasks[t].state = "done")
    => /\ tasks[LastChange].result = "return"
       /\ Cardinality(RunningStreams) <= 1
       /\ \A s \in RunningStreams :
             /\ s > LastChange
             /\ tasks[s].interval = tasks[LastChange].interval

\* ---------------------------------------------------------------- run claims
\* the trade events of the run: those since the last strategy_started
RunTrades == SelectSeq(Run, LAMBDA e : e.type \in {"trade_entry", "trade_exit"})

\* C31: the trade events of a run alternate, entry first: the odd ones are
\* trade_entry and the even ones trade_exit, so every trade_exit follows a
\* trade_entry no exit has matched, and the run has one more entry than
\* exits exactly when position_open holds, and as many otherwise
C31_TradesAlternate ==
    /\ \A i \in DOMAIN RunTrades :
          RunTrades[i].type = IF i % 2 = 1 THEN "trade_entry" ELSE "trade_exit"
    /\ Len(RunTrades) % 2 = IF position_open THEN 1 ELSE 0

\* a second run that has opened, closed and opened a position again
C31_Witness ==
    /\ LastStart(Len(trace)) > 1
    /\ Len(RunTrades) = 3
    /\ position_open

\* the orders of a sequence of invocations that the port confirmed, by
\* direction
Confirmed(es, direction) ==
    Len(SelectSeq(es, LAMBDA e : IsOrder(e) /\ e.result = "ok"
                                 /\ e.direction = direction))

\* lots the broker holds for the orders of es, in orders
Held(es) == Confirmed(es, "buy") - Confirmed(es, "sell")

\* C32: in every state the buy orders the port confirmed over the whole
\* lifetime of the engine, less the sell orders it confirmed, are 1 when
\* position_open holds and 0 when it does not
C32_PositionMirrorsOrders ==
    Held(trace) = IF position_open THEN 1 ELSE 0

\* C32 as the code has it: the same of the orders placed since the last
\* on_start (since construction when there was none); on_start clears the
\* flag and places no order
C32_PositionMirrorsOrdersOfRun ==
    Held(Run) = IF position_open THEN 1 ELSE 0

\* a restarted run that holds a position after a refused and a confirmed
\* buy, the run before it having been left with its position open
C32_Witness ==
    /\ LastStart(Len(trace)) > 0
    /\ position_open
    /\ Held(trace) = 2
    /\ \E i \in DOMAIN Run : IsOrder(Run[i]) /\ Run[i].result # "ok"

C35_OneInstance ==
    \A k \in DOMAIN instances :
        /\ instances[k].on_stop = 0
           => k = Len(instances) /\ win.strategy_instance = k
        /\ win.strategy_instance \in {0, Len(instances)}
        /\ instances[k].on_start = 1
        /\ instances[k].rows = Cardinality(CandlesOf(k))

\* a start_strategy found the instance running, which holds a position
\* and the two candles it was handed
C35_Witness ==
    /\ Len(instances) = 1
    /\ win.strategy_instance = 1
    /\ instances[1].last = "start_strategy"
    /\ instances[1].position_open
    /\ instances[1].rows = 2

\* ---------------------------------------------------------------- order of a call
\* C36: an on_candle call that emits a trade event has handed out, in this
\* order, the indicators_update event, the order, which the port confirmed,
\* and the trade event; the two events carry the timestamp and the close of
\* the observation of the call
C36_EventOrderInCall ==
    (call.op = "on_candle" /\ CallTrades # <<>>)
    => /\ Len(CallOut) = 3
       /\ CallOut[1].type = "indicators_update"
       /\ IsOrder(CallOut[2]) /\ CallOut[2].result = "ok"
       /\ CallOut[3].type \in {"trade_entry", "trade_exit"}
       /\ CallOut[2].direction = CallOut[3].direction
       /\ CallOut[1].timestamp = CallOut[3].timestamp
       /\ CallOut[1].price = CallOut[3].price
       /\ CallOut[3].timestamp = CandleRow.time
       /\ CallOut[3].price = CandleRow.close

\* a call that closed a position at a price other than the entry price
C36_Witness ==
    /\ call.op = "on_candle"
    /\ Emitted("trade_exit")
    /\ CandleRow.close # call.pre.entry_price
    /\ CandleRow.time > 1

\* ---------------------------------------------------------------- statistics
\* C37: in every state 0 <= winning_trades <= trades_count, trades_count is
\* the number of trade_exit events emitted since the last on_start, and
\* every win_rate that on_stop reported lies between 0 and 100
C37_StatsBounds ==
    /\ 0 <= winning_trades
    /\ winning_trades <= trades_count
    /\ trades_count = Len(RunExits)
    /\ \A i \in DOMAIN trace :
          trace[i].type = "strategy_stopped"
          => /\ trace[i].win_rate.n > 0
             /\ 0 <= trace[i].win_rate.sum
             /\ trace[i].win_rate.sum <= 100 * trace[i].win_rate.n

\* on_stop reported a win rate of 100 after one trade, which won
C37_Witness ==
    /\ call.op = "on_stop"
    /\ trades_count = 1
    /\ winning_trades = 1
    /\ trace[Len(trace)].win_rate = [sum |-> 100, n |-> 1]

\* ---------------------------------------------------------------- orders
\* C38: every invocation of the order port carries the instrument and the
\* quantity given at construction and the direction buy or sell, so the
\* direction check of the client never answers it with ValueError; the
\* invocation of a call is a buy only when the call found the position
\* flat, and a sell only when it found it open
C38_OrderArguments ==
    /\ \A i \in DOMAIN trace :
          IsOrder(trace[i])
          => /\ trace[i].figi = figi
             /\ trace[i].qty = qty
             /\ trace[i].direction \in {"buy", "sell"}
             /\ trace[i].result # "ValueError"
    /\ \A i \in DOMAIN CallOut :
          IsOrder(CallOut[i])
          => /\ CallOut[i].direction = "buy" => ~call.pre.position_open
             /\ CallOut[i].direction = "sell" => call.pre.position_open
    /\ figi = call.pre.figi \/ call.op = "__init__"
    /\ qty = call.pre.qty \/ call.op = "__init__"

\* a buy and a sell of the largest quantity in the trace, the sell refused
\* by the broker in the last call
C38_Witness ==
    /\ qty = MaxQty
    /\ call.op = "on_candle"
    /\ \E i \in DOMAIN CallOut :
          /\ IsOrder(CallOut[i])
          /\ CallOut[i].direction = "sell"
          /\ CallOut[i].result = "OrderError"
    /\ \E i \in DOMAIN trace : IsOrder(trace[i]) /\ trace[i].direction = "buy"

\* ---------------------------------------------------------------- echo claims
\* the candle_received events of a sequence of events
Received(es) == SelectSeq(es, LAMBDA e : e.type = "candle_received")

\* the on_candle calls made on the echo instance since on_start was called
\* last, each of which advanced the clock of the feed by one
CandlesOfRun == Len(Received(Run))

\* C39: candle_count is the number of on_candle calls since the last
\* on_start (since construction before the first); every on_candle call emits one
\* candle_received event, numbered 1, 2, 3, ... within the run; no call
\* invokes the order port; an on_stop call reports that count as
\* candles_processed and leaves the counter as it was
C39_EchoCounter ==
    /\ candle_count = CandlesOfRun
    /\ call.op = "on_candle"
       => /\ Len(CallOut) = 1
          /\ CallOut[1].type = "candle_received"
          /\ CallOut[1].candle_count = call.pre.candle_count + 1
          /\ candle_count = call.pre.candle_count + 1
    /\ \A i \in DOMAIN Received(Run) : Received(Run)[i].candle_count = i
    /\ \A i \in DOMAIN trace : ~IsOrder(trace[i])
    /\ call.op = "on_stop"
       => /\ CallOut = <<[type |-> "strategy_stopped",
                          candles_processed |-> candle_count,
                          strategy_name |-> "EchoStrategy"]>>
          /\ candle_count = call.pre.candle_count
    /\ call.op = "on_start" => candle_count = 0

\* a candle counted after an on_stop that followed a candle, in a run that
\* was started after earlier candles
C39_Witness ==
    /\ call.op = "on_candle"
    /\ candle_count = 2
    /\ Len(trace) >= 3
    /\ trace[Len(trace) - 1].type = "strategy_stopped"
    /\ LastStart(Len(trace)) > 1
====
